---- MODULE Spec2Model ----
(***************************************************************************)
(* Model of zenml.new_core.stack.Stack and of                              *)
(* zenml.new_core.runtime_configuration.RuntimeConfiguration.              *)
(*                                                                         *)
(* A Stack is built from an orchestrator, a metadata store, an artifact    *)
(* store and an optional container registry.  The constructor validates    *)
(* the stack; requirements, runtime_options and components are derived     *)
(* views; deploy_pipeline drives the hooks of the components around one    *)
(* call of orchestrator.run_pipeline.                                      *)
(*                                                                         *)
(* Python values are encoded so that values of one kind are comparable:    *)
(*   - a Python dict that is iterated is a sequence of <<key, value>>      *)
(*     pairs in insertion order;                                           *)
(*   - an Optional[str] is a record [isNone, s], s a sequence of tokens;   *)
(*   - an absent (None) component is the record NoComponent.               *)
(***************************************************************************)
EXTENDS Integers, Sequences, FiniteSets, TLC

VARIABLES args, stack, ctor, query, inv, now, config

vars == <<args, stack, ctor, query, inv, now, config>>

-----------------------------------------------------------------------------
(* Bounds of the model *)

\* longest requirement list of one component
MaxReqLen == 1
\* number of distinct runtime option keys the components may declare
NumOptionKeys == 2
\* number of deploy_pipeline invocations made on the stack
NumInvocations == 2
\* last instant (in microseconds) the clock reaches
MaxClock == 1
\* number of item assignments made on one RuntimeConfiguration
MaxSets == 2

-----------------------------------------------------------------------------
(* Values *)

ORCHESTRATOR == "orchestrator"
METADATA_STORE == "metadata_store"
ARTIFACT_STORE == "artifact_store"
CONTAINER_REGISTRY == "container_registry"

StackComponentType ==
  {ORCHESTRATOR, METADATA_STORE, ARTIFACT_STORE, CONTAINER_REGISTRY}

Packages == {"mlflow", "numpy"}

KeyNames == <<"image", "port", "tag", "zone">>
OptionKeys == {KeyNames[i] : i \in 1..NumOptionKeys}

Validators == {"none", "accepts", "rejects"}

EmptyDict == <<>>

\* the value None in a component slot
NoComponent ==
  [type |-> "none", validator |-> "none", requirements |-> <<>>,
   runtime_options |-> EmptyDict]

IsNone(component) == component.type = "none"

RECURSIVE SeqsUpTo(_, _)
SeqsUpTo(S, n) ==
  IF n = 0 THEN {<<>>}
  ELSE LET shorter == SeqsUpTo(S, n - 1)
       IN  shorter \cup {Append(s, x) : s \in {t \in shorter : Len(t) = n - 1},
                                        x \in S}

\* the option keys of a set as a dict whose defaults name the declaring
\* component, listed in the order of KeyNames
RECURSIVE OptionsOf(_, _, _)
OptionsOf(t, keys, i) ==
  IF i > Len(KeyNames) THEN EmptyDict
  ELSE IF KeyNames[i] \in keys
       THEN <<<<KeyNames[i], <<t, KeyNames[i]>>>>>> \o OptionsOf(t, keys, i + 1)
       ELSE OptionsOf(t, keys, i + 1)

\* a component of category t
Component(t, v, reqs, keys) ==
  [type |-> t, validator |-> v, requirements |-> reqs,
   runtime_options |-> OptionsOf(t, keys, 1)]

PlainComponent(t) == Component(t, "none", <<>>, {})

-----------------------------------------------------------------------------
(* Python dict, kept in insertion order *)

HasKey(d, k) == \E i \in 1..Len(d) : d[i][1] = k

keys(d) == {d[i][1] : i \in 1..Len(d)}

Get(d, k) == d[CHOOSE i \in 1..Len(d) : d[i][1] = k][2]

DictSet_replacing_all(d, k, v) == <<<<k, v>>>>

\* d[k] = v: an existing key keeps its position, a new key goes last
DictSet(d, k, v) ==
  IF HasKey(d, k)
  THEN [i \in 1..Len(d) |-> IF d[i][1] = k THEN <<k, v>> ELSE d[i]]
  ELSE Append(d, <<k, v>>)

\* d.update(e)
RECURSIVE update(_, _)
update(d, e) ==
  IF e = <<>> THEN d
  ELSE update(DictSet(d, Head(e)[1], Head(e)[2]), Tail(e))

values(d) == [i \in 1..Len(d) |-> d[i][2]]

-----------------------------------------------------------------------------
(* Stack: the stored fields and the derived views *)

NoStack ==
  [exists |-> FALSE, _name |-> "", _orchestrator |-> NoComponent,
   _metadata_store |-> NoComponent, _artifact_store |-> NoComponent,
   _container_registry |-> NoComponent]

\* the assignments of Stack.__init__
NewStack(a) ==
  [exists |-> TRUE, _name |-> a.name, _orchestrator |-> a.orchestrator,
   _metadata_store |-> a.metadata_store, _artifact_store |-> a.artifact_store,
   _container_registry |-> a.container_registry]

RECURSIVE ByType(_)
ByType(cs) ==
  IF cs = <<>> THEN EmptyDict
  ELSE IF IsNone(cs[Len(cs)]) THEN ByType(SubSeq(cs, 1, Len(cs) - 1))
       ELSE DictSet(ByType(SubSeq(cs, 1, Len(cs) - 1)),
                    cs[Len(cs)].type, cs[Len(cs)])

components_no_registry(s) ==
  ByType(<<s._orchestrator, s._metadata_store, s._artifact_store>>)

components_reordered(s) ==
  ByType(<<s._orchestrator, s._artifact_store, s._metadata_store,
           s._container_registry>>)

\* Stack.components
components(s) ==
  ByType(<<s._orchestrator, s._metadata_store, s._artifact_store,
           s._container_registry>>)

RECURSIVE merge_first_wins(_)
merge_first_wins(cs) ==
  IF cs = <<>> THEN [options |-> EmptyDict, warnings |-> <<>>]
  ELSE LET sofar == merge_first_wins(SubSeq(cs, 1, Len(cs) - 1))
           c == cs[Len(cs)]
           duplicate == keys(sofar.options) \cap keys(c.runtime_options)
       IN  [options  |-> update(c.runtime_options, sofar.options),
            warnings |-> IF duplicate # {}
                         THEN Append(sofar.warnings, duplicate)
                         ELSE sofar.warnings]

\* the loop of Stack.runtime_options over a list of components: the merged
\* dict and the warnings logged
RECURSIVE merge_runtime_options(_)
merge_runtime_options(cs) ==
  IF cs = <<>> THEN [options |-> EmptyDict, warnings |-> <<>>]
  ELSE LET sofar == merge_runtime_options(SubSeq(cs, 1, Len(cs) - 1))
           c == cs[Len(cs)]
           duplicate_runtime_options ==
             keys(sofar.options) \cap keys(c.runtime_options)
       IN  [options  |-> update(sofar.options, c.runtime_options),
            warnings |-> IF duplicate_runtime_options # {}
                         THEN Append(sofar.warnings, duplicate_runtime_options)
                         ELSE sofar.warnings]

\* Stack.runtime_options
runtime_options(s) == merge_runtime_options(values(components(s)))

RECURSIVE extend_ignoring_exclude(_, _)
extend_ignoring_exclude(items, exclude_components) ==
  IF items = <<>> THEN <<>>
  ELSE extend_ignoring_exclude(SubSeq(items, 1, Len(items) - 1),
                               exclude_components)
         \o items[Len(items)][2].requirements

\* the loop of Stack.requirements over the items of the components dict
RECURSIVE extend_requirements(_, _)
extend_requirements(items, exclude_components) ==
  IF items = <<>> THEN <<>>
  ELSE LET sofar ==
             extend_requirements(SubSeq(items, 1, Len(items) - 1),
                                 exclude_components)
           component_type == items[Len(items)][1]
           component == items[Len(items)][2]
       IN  IF component_type \notin exclude_components
           THEN sofar \o component.requirements
           ELSE sofar

\* Stack.requirements
requirements(s, exclude_components) ==
  extend_requirements(components(s), exclude_components)

RECURSIVE validate_components_all(_)
validate_components_all(cs) ==
  IF cs = <<>> THEN [raised |-> FALSE, called |-> <<>>]
  ELSE LET component == Head(cs)
           rest == validate_components_all(Tail(cs))
       IN  IF component.validator # "none"
           THEN [raised |-> rest.raised \/ component.validator = "rejects",
                 called |-> <<component.type>> \o rest.called]
           ELSE rest

\* the loop of Stack.validate over a list of components: the validators
\* invoked, in order, and whether one of them raised
RECURSIVE validate_components(_)
validate_components(cs) ==
  IF cs = <<>> THEN [raised |-> FALSE, called |-> <<>>]
  ELSE LET component == Head(cs)
           rest == validate_components(Tail(cs))
       IN  IF component.validator # "none"
           THEN IF component.validator = "rejects"
                THEN [raised |-> TRUE, called |-> <<component.type>>]
                ELSE [raised |-> rest.raised,
                      called |-> <<component.type>> \o rest.called]
           ELSE rest

validate_ignoring_failure(s) ==
  [raised |-> FALSE,
   called |-> validate_components(values(components(s))).called]

\* Stack.validate
validate(s) == validate_components(values(components(s)))

Stack_init_unvalidated(a) ==
  [stack |-> NewStack(a), status |-> "ok", validated |-> <<>>]

\* Stack.__init__: the fields are assigned, then validate() runs; when it
\* raises, the constructor raises and the caller gets no object
Stack_init(a) ==
  LET self == NewStack(a)
      v == validate(self)
  IN  [stack     |-> IF v.raised THEN NoStack ELSE self,
       status    |-> IF v.raised THEN "raised" ELSE "ok",
       validated |-> v.called]

-----------------------------------------------------------------------------
(* RuntimeConfiguration *)

RUN_NAME_OPTION_KEY == "run_name"

NoneStr == [isNone |-> TRUE, s |-> <<>>]
Str(tokens) == [isNone |-> FALSE, s |-> tokens]

Truthy_not_none(x) == ~x.isNone

\* Python truth value of an Optional[str]
Truthy(x) == ~x.isNone /\ x.s # <<>>

RuntimeConfiguration_drops_name(name, options) ==
  DictSet(options, RUN_NAME_OPTION_KEY, NoneStr)

\* RuntimeConfiguration.__init__
RuntimeConfiguration(name, options) ==
  DictSet(options, RUN_NAME_OPTION_KEY, name)

\* RuntimeConfiguration.run_name
run_name(rc) == Get(rc, RUN_NAME_OPTION_KEY)

\* the keys a caller uses: the reserved one and the free-form ones
ConfigKeys == {RUN_NAME_OPTION_KEY, "some_option", "other_option"}

\* the values a caller stores, None included
ConfigValues == {NoneStr, Str(<<"test_name">>), Str(<<"43">>)}

\* keyword arguments **runtime_options, in the order they are passed
KeywordArguments ==
  {EmptyDict} \cup
  {<<<<"other_option", v>>>> : v \in ConfigValues} \cup
  {<<<<"some_option", v>>>> : v \in ConfigValues} \cup
  {<<<<"other_option", v>>, <<"some_option", w>>>> :
     v \in ConfigValues, w \in ConfigValues}

\* no RuntimeConfiguration has been made
NoConfiguration ==
  [made |-> FALSE, rc |-> EmptyDict, given_name |-> NoneStr,
   given_options |-> EmptyDict, sets |-> 0, last_key |-> "",
   latest |-> <<>>]

-----------------------------------------------------------------------------
(* deploy_pipeline *)

Invocations == 1..NumInvocations

ReturnValues == {"result_a", "result_b"}

Pipelines == {[name |-> "pipe"]}

RunNames == {NoneStr, Str(<<>>), Str(<<"my_run">>)}

NoError == [hook |-> "none", type |-> "none"]

strftime_seconds(t) == <<"d_h_y-H_M_S", t \div 2>>

\* datetime.now().strftime("%d_%h_%y-%H_%M_%S_%f"): day, month, year, hour,
\* minute, second and microsecond of the instant t
strftime(t) == <<"d_h_y-H_M_S", t>>

IdleInvocation ==
  [pc |-> "idle", idx |-> 0, pipeline |-> [name |-> ""],
   runtime_configuration |-> RuntimeConfiguration(NoneStr, EmptyDict),
   log |-> <<>>, run_name |-> NoneStr, called_at |-> 0,
   return_value |-> "None", result |-> "None", error |-> NoError]

\* entry of deploy_pipeline
deploy_pipeline_enter(r, pipeline, rc) ==
  [r EXCEPT !.pc = "prepare_pipeline_deployment", !.idx = 1,
            !.pipeline = pipeline, !.runtime_configuration = rc]

Raised(r, hook, type) ==
  [r EXCEPT !.pc = "failed", !.error = [hook |-> hook, type |-> type]]

prepare_pipeline_deployment_swallow(r, s, outcome) ==
  LET cs == values(components(s))
      component == cs[r.idx]
      logged == [r EXCEPT !.log = Append(@, <<"prepare_pipeline_deployment",
                                              component.type, outcome>>)]
  IN  IF r.idx < Len(cs)
      THEN [logged EXCEPT !.idx = @ + 1]
      ELSE [logged EXCEPT !.pc = "prepare_pipeline_run", !.idx = 1]

prepare_pipeline_deployment_rollback(r, s, outcome) ==
  LET cs == values(components(s))
      component == cs[r.idx]
      logged == [r EXCEPT !.log = Append(@, <<"prepare_pipeline_deployment",
                                              component.type, outcome>>)]
  IN  IF outcome = "raise"
      THEN [logged EXCEPT !.pc = "cleanup_pipeline_run", !.idx = 1,
                          !.error = [hook |-> "prepare_pipeline_deployment",
                                     type |-> component.type]]
      ELSE IF r.idx < Len(cs)
           THEN [logged EXCEPT !.idx = @ + 1]
           ELSE [logged EXCEPT !.pc = "prepare_pipeline_run", !.idx = 1]

\* one iteration of the first loop of deploy_pipeline: the hook of the
\* component at position r.idx returns ("ok") or raises ("raise")
prepare_pipeline_deployment(r, s, outcome) ==
  LET cs == values(components(s))
      component == cs[r.idx]
      logged == [r EXCEPT !.log = Append(@, <<"prepare_pipeline_deployment",
                                              component.type, outcome>>)]
  IN  IF outcome = "raise"
      THEN Raised(logged, "prepare_pipeline_deployment", component.type)
      ELSE IF r.idx < Len(cs)
           THEN [logged EXCEPT !.idx = @ + 1]
           ELSE [logged EXCEPT !.pc = "prepare_pipeline_run", !.idx = 1]

\* the run name deploy_pipeline passes to the orchestrator at instant t
resolve_run_name(r, t) ==
  IF Truthy(run_name(r.runtime_configuration))
  THEN run_name(r.runtime_configuration)
  ELSE Str(<<r.pipeline.name, "-">> \o strftime(t))

\* the statements between the second loop and the call of run_pipeline,
\* and the call itself; called_at remembers the instant datetime.now() read
call_run_pipeline(r, t) ==
  [r EXCEPT !.pc = "run_pipeline", !.idx = 0,
            !.run_name = resolve_run_name(r, t), !.called_at = t,
            !.log = Append(@, <<"run_pipeline", ORCHESTRATOR, "running">>)]

prepare_pipeline_run_retry(r, s, outcome, t) ==
  LET cs == values(components(s))
      component == cs[r.idx]
      first == \A k \in 1..Len(r.log) :
                 r.log[k][1] # "prepare_pipeline_run"
                   \/ r.log[k][2] # component.type
      logged == [r EXCEPT !.log = Append(@, <<"prepare_pipeline_run",
                                              component.type, outcome>>)]
  IN  IF outcome = "raise"
      THEN IF first THEN logged
           ELSE Raised(logged, "prepare_pipeline_run", component.type)
      ELSE IF r.idx < Len(cs)
           THEN [logged EXCEPT !.idx = @ + 1]
           ELSE call_run_pipeline(logged, t)

prepare_pipeline_run_swallow(r, s, outcome, t) ==
  LET cs == values(components(s))
      component == cs[r.idx]
      logged == [r EXCEPT !.log = Append(@, <<"prepare_pipeline_run",
                                              component.type, outcome>>)]
  IN  IF r.idx < Len(cs)
      THEN [logged EXCEPT !.idx = @ + 1]
      ELSE call_run_pipeline(logged, t)

\* one iteration of the second loop of deploy_pipeline; after the last
\* component the run name is resolved and run_pipeline is called
prepare_pipeline_run(r, s, outcome, t) ==
  LET cs == values(components(s))
      component == cs[r.idx]
      logged == [r EXCEPT !.log = Append(@, <<"prepare_pipeline_run",
                                              component.type, outcome>>)]
  IN  IF outcome = "raise"
      THEN Raised(logged, "prepare_pipeline_run", component.type)
      ELSE IF r.idx < Len(cs)
           THEN [logged EXCEPT !.idx = @ + 1]
           ELSE call_run_pipeline(logged, t)

\* the log once the pending call of run_pipeline has ended with outcome
Ended(log, outcome) ==
  [log EXCEPT ![Len(log)] = <<"run_pipeline", ORCHESTRATOR, outcome>>]

\* orchestrator.run_pipeline returns a value or raises
run_pipeline_ends(r, outcome) ==
  LET logged == [r EXCEPT !.log = Ended(@, outcome)]
  IN  IF outcome = "raise"
      THEN Raised(logged, "run_pipeline", ORCHESTRATOR)
      ELSE [logged EXCEPT !.return_value = outcome,
                          !.pc = "cleanup_pipeline_run", !.idx = 1]

cleanup_pipeline_run_swallow(r, s, outcome) ==
  LET cs == values(components(s))
      component == cs[r.idx]
      logged == [r EXCEPT !.log = Append(@, <<"cleanup_pipeline_run",
                                              component.type, outcome>>)]
  IN  IF r.idx < Len(cs)
      THEN [logged EXCEPT !.idx = @ + 1]
      ELSE [logged EXCEPT !.pc = "done", !.idx = 0,
                          !.result = r.return_value]

cleanup_pipeline_run_returns_none(r, s, outcome) ==
  LET cs == values(components(s))
      component == cs[r.idx]
      logged == [r EXCEPT !.log = Append(@, <<"cleanup_pipeline_run",
                                              component.type, outcome>>)]
  IN  IF outcome = "raise"
      THEN Raised(logged, "cleanup_pipeline_run", component.type)
      ELSE IF r.idx < Len(cs)
           THEN [logged EXCEPT !.idx = @ + 1]
           ELSE [logged EXCEPT !.pc = "done", !.idx = 0]

\* one iteration of the last loop of deploy_pipeline; after the last
\* component deploy_pipeline returns return_value
cleanup_pipeline_run(r, s, outcome) ==
  LET cs == values(components(s))
      component == cs[r.idx]
      logged == [r EXCEPT !.log = Append(@, <<"cleanup_pipeline_run",
                                              component.type, outcome>>)]
  IN  IF outcome = "raise"
      THEN Raised(logged, "cleanup_pipeline_run", component.type)
      ELSE IF r.idx < Len(cs)
           THEN [logged EXCEPT !.idx = @ + 1]
           ELSE [logged EXCEPT !.pc = "done", !.idx = 0,
                               !.result = r.return_value]

-----------------------------------------------------------------------------
(* Inputs *)

ReqLists == SeqsUpTo(Packages, MaxReqLen)

\* constructor arguments: the slots hold components of their own category
ArgsOf(C) ==
  [name : {"stack"},
   orchestrator : C[ORCHESTRATOR],
   metadata_store : C[METADATA_STORE],
   artifact_store : C[ARTIFACT_STORE],
   container_registry : C[CONTAINER_REGISTRY] \cup {NoComponent}]

\* components that differ in their validators only
WithValidators ==
  [t \in StackComponentType |-> {Component(t, v, <<>>, {}) : v \in Validators}]

\* components that differ in their requirement lists only
WithRequirements ==
  [t \in StackComponentType |->
     {Component(t, "none", reqs, {}) : reqs \in ReqLists}]

\* components that differ in the runtime options they declare only
WithOptions ==
  [t \in StackComponentType |->
     {Component(t, "none", <<>>, ks) : ks \in SUBSET OptionKeys}]

Plain == [t \in StackComponentType |-> {PlainComponent(t)}]

\* components whose validators accept the stack
Accepting ==
  [t \in StackComponentType |-> {Component(t, "accepts", <<>>, {})}]

NoQuery ==
  [op |-> "none", exclude |-> {}, list |-> <<>>, dict |-> EmptyDict,
   warnings |-> <<>>, raised |-> FALSE]

InitWith(A) ==
  /\ args \in A
  /\ stack = NoStack
  /\ ctor = [status |-> "pending", validated |-> <<>>]
  /\ query = NoQuery
  /\ inv = [i \in Invocations |-> IdleInvocation]
  /\ now = 0
  /\ config = NoConfiguration

-----------------------------------------------------------------------------
(* Actions *)

\* Stack(name, orchestrator=..., metadata_store=..., artifact_store=...,
\*       container_registry=...)
Construct ==
  /\ ctor.status = "pending"
  /\ LET made == Stack_init(args)
     IN  /\ stack' = made.stack
         /\ ctor' = [status |-> made.status, validated |-> made.validated]
  /\ UNCHANGED <<args, query, inv, now, config>>

\* stack.components
Components ==
  /\ stack.exists
  /\ query' = [NoQuery EXCEPT !.op = "components", !.dict = components(stack)]
  /\ UNCHANGED <<args, stack, ctor, inv, now, config>>

\* stack.validate()
Validate ==
  /\ stack.exists
  /\ LET v == validate(stack)
     IN  query' = [NoQuery EXCEPT !.op = "validate", !.list = v.called,
                                  !.raised = v.raised]
  /\ UNCHANGED <<args, stack, ctor, inv, now, config>>

\* stack.requirements(exclude_components)
Requirements ==
  /\ stack.exists
  /\ \E exclude_components \in SUBSET StackComponentType :
       query' = [NoQuery EXCEPT !.op = "requirements",
                                !.exclude = exclude_components,
                                !.list = requirements(stack, exclude_components)]
  /\ UNCHANGED <<args, stack, ctor, inv, now, config>>

\* stack.runtime_options
RuntimeOptions ==
  /\ stack.exists
  /\ LET merged == runtime_options(stack)
     IN  query' = [NoQuery EXCEPT !.op = "runtime_options",
                                  !.dict = merged.options,
                                  !.warnings = merged.warnings]
  /\ UNCHANGED <<args, stack, ctor, inv, now, config>>

\* the clock advances
Tick ==
  /\ now < MaxClock
  /\ now' = now + 1
  /\ UNCHANGED <<args, stack, ctor, query, inv, config>>

Terminated(r) == r.pc \in {"done", "failed"}

\* the caller uses the stack for one run at a time: the earlier calls of
\* deploy_pipeline are over and the later ones not made
OneAtATime(i) ==
  \A j \in Invocations \ {i} :
    IF j < i THEN inv[j].pc = "released" ELSE inv[j].pc = "idle"

\* what is left of an activation of deploy_pipeline once it has returned or
\* raised and the caller has taken the outcome: the locals are gone, the
\* arguments of the call and the run name that was passed to the
\* orchestrator stay known
released(r) ==
  [IdleInvocation EXCEPT !.pc = "released", !.pipeline = r.pipeline,
                         !.runtime_configuration = r.runtime_configuration,
                         !.run_name = r.run_name, !.called_at = r.called_at]

\* the caller has received the result or the exception of deploy_pipeline
Release(i) ==
  /\ Terminated(inv[i])
  /\ inv' = [inv EXCEPT ![i] = released(@)]
  /\ UNCHANGED <<args, stack, ctor, query, now, config>>

\* stack.deploy_pipeline(pipeline, RuntimeConfiguration(run_name=name)) is
\* called with one of the given run names
DeployPipelineWith(i, names) ==
  /\ stack.exists
  /\ inv[i].pc = "idle"
  /\ \E pipeline \in Pipelines, name \in names :
       inv' = [inv EXCEPT ![i] =
                 deploy_pipeline_enter(@, pipeline,
                                       RuntimeConfiguration(name, EmptyDict))]
  /\ UNCHANGED <<args, stack, ctor, query, now, config>>

\* stack.deploy_pipeline(pipeline, runtime_configuration) is called
DeployPipeline(i) == DeployPipelineWith(i, RunNames)

\* deploy_pipeline is called by a caller that runs one pipeline at a time
Deploy(i) ==
  /\ OneAtATime(i)
  /\ DeployPipeline(i)

\* the same, by a caller that passes no run name
DeployUnnamed(i) ==
  /\ OneAtATime(i)
  /\ DeployPipelineWith(i, {NoneStr})

DeployOverlapping_locked(i) ==
  /\ \A j \in Invocations \ {i} : inv[j].pc \in {"idle", "done", "failed"}
  /\ DeployPipelineWith(i, {NoneStr})

\* the same, by a caller that does not wait for the calls of other callers
\* to return: deploy_pipeline is entered whatever the others are doing
DeployOverlapping(i) == DeployPipelineWith(i, {NoneStr})

PreparePipelineDeployment(i) ==
  /\ inv[i].pc = "prepare_pipeline_deployment"
  /\ \E outcome \in {"ok", "raise"} :
       inv' = [inv EXCEPT ![i] = prepare_pipeline_deployment(@, stack, outcome)]
  /\ UNCHANGED <<args, stack, ctor, query, now, config>>

PreparePipelineRun(i) ==
  /\ inv[i].pc = "prepare_pipeline_run"
  /\ \E outcome \in {"ok", "raise"} :
       inv' = [inv EXCEPT ![i] = prepare_pipeline_run(@, stack, outcome, now)]
  /\ UNCHANGED <<args, stack, ctor, query, now, config>>

RunPipelineEnds(i) ==
  /\ inv[i].pc = "run_pipeline"
  /\ \E outcome \in ReturnValues \cup {"raise"} :
       inv' = [inv EXCEPT ![i] = run_pipeline_ends(@, outcome)]
  /\ UNCHANGED <<args, stack, ctor, query, now, config>>

CleanupPipelineRun_unsetting_registry(i) ==
  /\ inv[i].pc = "cleanup_pipeline_run"
  /\ \E outcome \in {"ok", "raise"} :
       inv' = [inv EXCEPT ![i] = cleanup_pipeline_run(@, stack, outcome)]
  /\ stack' = [stack EXCEPT !._container_registry = NoComponent]
  /\ UNCHANGED <<args, ctor, query, now, config>>

CleanupPipelineRun(i) ==
  /\ inv[i].pc = "cleanup_pipeline_run"
  /\ \E outcome \in {"ok", "raise"} :
       inv' = [inv EXCEPT ![i] = cleanup_pipeline_run(@, stack, outcome)]
  /\ UNCHANGED <<args, stack, ctor, query, now, config>>

\* rc = RuntimeConfiguration(run_name=name, **options), or
\* RuntimeConfiguration(**options) when name is None
NewConfiguration ==
  /\ ~config.made
  /\ \E name \in ConfigValues, options \in KeywordArguments :
       config' = [NoConfiguration EXCEPT
                    !.made = TRUE,
                    !.rc = RuntimeConfiguration(name, options),
                    !.given_name = name,
                    !.given_options = options]
  /\ UNCHANGED <<args, stack, ctor, query, inv, now>>

\* rc[key] = value; latest remembers the value last assigned to each key
SetItem ==
  /\ config.made
  /\ config.sets < MaxSets
  /\ \E key \in ConfigKeys, value \in ConfigValues :
       config' = [config EXCEPT
                    !.rc = DictSet(@, key, value),
                    !.sets = @ + 1,
                    !.last_key = key,
                    !.latest = [k \in DOMAIN @ \cup {key} |->
                                  IF k = key THEN value ELSE @[k]]]
  /\ UNCHANGED <<args, stack, ctor, query, inv, now>>

-----------------------------------------------------------------------------
(* Specifications *)

\* a stack of components without validators, requirements or options, on
\* which pipelines are deployed one after the other
Init == InitWith(ArgsOf(Plain))

Next ==
  \/ Construct
  \/ Tick
  \/ \E i \in Invocations : Deploy(i)
  \/ \E i \in Invocations : PreparePipelineDeployment(i)
  \/ \E i \in Invocations : PreparePipelineRun(i)
  \/ \E i \in Invocations : RunPipelineEnds(i)
  \/ \E i \in Invocations : CleanupPipelineRun(i)
  \/ \E i \in Invocations : Release(i)

Spec == Init /\ [][Next]_vars

\* the call an invocation is waiting for returns or raises
Returns ==
  \E i \in Invocations :
    \/ PreparePipelineDeployment(i)
    \/ PreparePipelineRun(i)
    \/ RunPipelineEnds(i)
    \/ CleanupPipelineRun(i)

\* the calls of deploy_pipeline without a run name at one instant of the
\* clock
NextLive ==
  \/ Construct
  \/ \E i \in Invocations : DeployUnnamed(i)
  \/ \E i \in Invocations : PreparePipelineDeployment(i)
  \/ \E i \in Invocations : PreparePipelineRun(i)
  \/ \E i \in Invocations : RunPipelineEnds(i)
  \/ \E i \in Invocations : CleanupPipelineRun(i)
  \/ \E i \in Invocations : Release(i)

\* the same, when every hook and every run_pipeline that is called returns
\* or raises
SpecLive == Init /\ [][NextLive]_vars /\ WF_vars(Returns)

\* stacks of all kinds of components, constructed and queried
InitStack ==
  InitWith(ArgsOf(WithValidators) \cup ArgsOf(WithRequirements)
             \cup ArgsOf(WithOptions))

NextStack ==
  \/ Construct
  \/ Components
  \/ Validate
  \/ Requirements
  \/ RuntimeOptions

SpecStack == InitStack /\ [][NextStack]_vars

\* a stack that is constructed, queried and validated again while pipelines
\* are deployed on it
InitUse == InitWith(ArgsOf(Plain) \cup ArgsOf(Accepting))

NextUse ==
  \/ Construct
  \/ Components
  \/ Validate
  \/ Requirements
  \/ RuntimeOptions
  \/ \E i \in Invocations : DeployUnnamed(i)
  \/ \E i \in Invocations : PreparePipelineDeployment(i)
  \/ \E i \in Invocations : PreparePipelineRun(i)
  \/ \E i \in Invocations : RunPipelineEnds(i)
  \/ \E i \in Invocations : CleanupPipelineRun(i)
  \/ \E i \in Invocations : Release(i)

SpecUse == InitUse /\ [][NextUse]_vars

\* the two callers whose calls of deploy_pipeline overlap
Callers == {i \in Invocations : i <= 2}

\* two callers that deploy pipelines on the same stack without waiting for
\* each other
NextOverlap ==
  \/ Construct
  \/ \E i \in Callers : DeployOverlapping(i)
  \/ \E i \in Callers : PreparePipelineDeployment(i)
  \/ \E i \in Callers : PreparePipelineRun(i)
  \/ \E i \in Callers : RunPipelineEnds(i)
  \/ \E i \in Callers : CleanupPipelineRun(i)

SpecOverlap == Init /\ [][NextOverlap]_vars

\* a RuntimeConfiguration is made and written to
NextConfig ==
  \/ NewConfiguration
  \/ SetItem

SpecConfig == Init /\ [][NextConfig]_vars

-----------------------------------------------------------------------------
(* Vocabulary of the properties, read off the stored fields of the stack *)

Slot(s, t) ==
  CASE t = ORCHESTRATOR -> s._orchestrator
    [] t = METADATA_STORE -> s._metadata_store
    [] t = ARTIFACT_STORE -> s._artifact_store
    [] t = CONTAINER_REGISTRY -> s._container_registry

Present(s) == {t \in StackComponentType : ~IsNone(Slot(s, t))}

\* orchestrator, metadata store, artifact store, container registry, the
\* absent ones left out
FixedOrder(s) ==
  SelectSeq(<<ORCHESTRATOR, METADATA_STORE, ARTIFACT_STORE, CONTAINER_REGISTRY>>,
            LAMBDA t : t \in Present(s))

PrepareHooks == {"prepare_pipeline_deployment", "prepare_pipeline_run"}

Count(log, hook, t) ==
  Cardinality({k \in 1..Len(log) : log[k][1] = hook /\ log[k][2] = t})

Calls(log) == [k \in 1..Len(log) |-> <<log[k][1], log[k][2]>>]

RaisedAt(log, k) == log[k][3] = "raise"

IsPrefix(p, q) == Len(p) <= Len(q) /\ \A k \in 1..Len(p) : p[k] = q[k]

Phase(hook, s) == [k \in 1..Len(FixedOrder(s)) |-> <<hook, FixedOrder(s)[k]>>]

ExpectedCalls(s) ==
  Phase("prepare_pipeline_deployment", s) \o Phase("prepare_pipeline_run", s)
    \o <<<<"run_pipeline", ORCHESTRATOR>>>> \o Phase("cleanup_pipeline_run", s)

ExecutionError == [hook |-> "run_pipeline", type |-> ORCHESTRATOR]

-----------------------------------------------------------------------------
(* Properties of deploy_pipeline, checked under Spec *)

\* C1: when orchestrator.run_pipeline raised, the invocation has invoked
\* cleanup_pipeline_run exactly once on every present component by the time
\* the caller receives the error, and that error is the execution error.
C1_CleanupAfterExecutionError ==
  \A i \in Invocations :
    (inv[i].pc = "failed" /\ \E k \in 1..Len(inv[i].log) :
         inv[i].log[k][1] = "run_pipeline" /\ RaisedAt(inv[i].log, k))
    => /\ \A t \in Present(stack) :
            Count(inv[i].log, "cleanup_pipeline_run", t) = 1
       /\ inv[i].error = ExecutionError

\* C2: once a prepare_pipeline_deployment or prepare_pipeline_run hook has
\* raised in an invocation, run_pipeline has not been and is not invoked in
\* it.
C2_NoExecutionAfterPrepareFailure ==
  \A i \in Invocations :
    (\E k \in 1..Len(inv[i].log) :
        inv[i].log[k][1] \in PrepareHooks /\ RaisedAt(inv[i].log, k))
    => /\ inv[i].pc # "run_pipeline"
       /\ \A k \in 1..Len(inv[i].log) : inv[i].log[k][1] # "run_pipeline"

C2_Witness ==
  \E i \in Invocations :
    /\ inv[i].pc = "failed"
    /\ inv[i].error = [hook |-> "prepare_pipeline_run", type |-> ARTIFACT_STORE]

\* C3: a prepare hook that raised is the last call the invocation makes: no
\* hook of any kind follows it, no cleanup_pipeline_run is in the log, and
\* the invocation is FAILED with the error of that hook and no result.
C3_PrepareFailureAborts ==
  \A i \in Invocations : \A k \in 1..Len(inv[i].log) :
    (inv[i].log[k][1] \in PrepareHooks /\ RaisedAt(inv[i].log, k))
    => /\ k = Len(inv[i].log)
       /\ \A j \in 1..Len(inv[i].log) :
            inv[i].log[j][1] # "cleanup_pipeline_run"
       /\ inv[i].pc = "failed"
       /\ inv[i].error = [hook |-> inv[i].log[k][1], type |-> inv[i].log[k][2]]
       /\ inv[i].result = "None"

C3_Witness ==
  \E i \in Invocations :
    /\ inv[i].pc = "failed"
    /\ inv[i].error = [hook |-> "prepare_pipeline_deployment",
                       type |-> METADATA_STORE]
    /\ Len(inv[i].log) = 2

\* the components whose prepare_pipeline_deployment returned in the log
Prepared(log) ==
  {log[k][2] : k \in {j \in 1..Len(log) :
      log[j][1] = "prepare_pipeline_deployment" /\ ~RaisedAt(log, j)}}

PartlyPrepared(r) ==
  /\ r.pc = "failed"
  /\ r.error.hook = "prepare_pipeline_deployment"
  /\ Prepared(r.log) # {}

\* C4 as stated: when prepare_pipeline_deployment succeeded for some
\* components and raised for another, cleanup_pipeline_run has run for every
\* component that did get prepared when the invocation ends.
C4_CleanupOfPrepared ==
  \A i \in Invocations :
    PartlyPrepared(inv[i])
    => \A t \in Prepared(inv[i].log) :
         Count(inv[i].log, "cleanup_pipeline_run", t) >= 1

\* C4 as amended: when prepare_pipeline_deployment succeeded for some
\* components and raised for another, cleanup_pipeline_run is invoked on no
\* component, the prepared ones included.
C4_NoCleanupOfPrepared ==
  \A i \in Invocations :
    (\E k \in 2..Len(inv[i].log) :
        inv[i].log[k][1] = "prepare_pipeline_deployment"
          /\ RaisedAt(inv[i].log, k))
    => \A t \in StackComponentType :
         Count(inv[i].log, "cleanup_pipeline_run", t) = 0

C4_Witness ==
  \E i \in Invocations :
    /\ PartlyPrepared(inv[i])
    /\ inv[i].error.type = ARTIFACT_STORE
    /\ Prepared(inv[i].log) = {ORCHESTRATOR, METADATA_STORE}

\* C5: the calls an invocation has made are always an initial part of:
\* prepare_pipeline_deployment on every present component in the fixed
\* order, prepare_pipeline_run on them in that order, run_pipeline on the
\* orchestrator, cleanup_pipeline_run on them in that order.
C5_PhaseOrder ==
  \A i \in Invocations : IsPrefix(Calls(inv[i].log), ExpectedCalls(stack))

C5_Witness ==
  \E i \in Invocations :
    /\ inv[i].pc = "done"
    /\ CONTAINER_REGISTRY \in Present(stack)
    /\ Calls(inv[i].log) = ExpectedCalls(stack)

\* C6: an invocation that ended and in which nothing raised has invoked each
\* of the three hooks once on every present component and run_pipeline once,
\* and has returned the value run_pipeline returned; an invocation that
\* ended has delivered either a result or an error, not both and not
\* neither, and one that is still running has delivered nothing.
C6_ResultOrError ==
  \A i \in Invocations :
    LET r == inv[i]
        nothingRaised == \A k \in 1..Len(r.log) : ~RaisedAt(r.log, k)
    IN  /\ (Terminated(r) /\ nothingRaised)
            => /\ r.pc = "done"
               /\ \A t \in Present(stack) :
                    \A hook \in PrepareHooks \cup {"cleanup_pipeline_run"} :
                      Count(r.log, hook, t) = 1
               /\ Count(r.log, "run_pipeline", ORCHESTRATOR) = 1
               /\ \E k \in 1..Len(r.log) :
                    /\ r.log[k][1] = "run_pipeline"
                    /\ r.log[k][3] \in ReturnValues
                    /\ r.result = r.log[k][3]
        /\ Terminated(r) => ((r.result # "None") # (r.error # NoError))
        /\ r.pc \notin {"done", "failed", "released"}
            => (r.result = "None" /\ r.error = NoError)

C6_Witness ==
  \E i \in Invocations :
    /\ inv[i].pc = "done"
    /\ inv[i].result = "result_b"
    /\ \A k \in 1..Len(inv[i].log) : ~RaisedAt(inv[i].log, k)

-----------------------------------------------------------------------------
(* Properties of construction and of the derived views, under SpecStack *)

\* the components passed to the constructor
Given(a) ==
  {a.orchestrator, a.metadata_store, a.artifact_store, a.container_registry}
    \ {NoComponent}

\* C7: once the constructor has run, if a component passed to it carries a
\* validator that fails then the constructor raised and there is no Stack;
\* and if there is a Stack, the validator of each of its components that
\* carries one was invoked by the constructor and accepted.
C7_ConstructionValidates ==
  ctor.status # "pending"
  => /\ (\E c \in Given(args) : c.validator = "rejects")
          => (ctor.status = "raised" /\ ~stack.exists)
     /\ stack.exists
          => \A t \in Present(stack) :
               Slot(stack, t).validator # "none"
               => /\ Slot(stack, t).validator = "accepts"
                  /\ \E k \in 1..Len(ctor.validated) : ctor.validated[k] = t

C7_Witness ==
  /\ ctor.status = "raised"
  /\ ~stack.exists
  /\ args.orchestrator.validator = "accepts"
  /\ args.artifact_store.validator = "rejects"

Contribution(s, t, exclude) ==
  IF t \in exclude THEN <<>> ELSE Slot(s, t).requirements

Occurrences(list, x) == Cardinality({k \in 1..Len(list) : list[k] = x})

\* C9: requirements(exclude_components) is the requirement lists of the
\* orchestrator, metadata store, artifact store and container registry, in
\* this order, leaving out the absent and the excluded ones, one after the
\* other: a package occurs as often as the included components list it.
C9_RequirementsConcatenation ==
  query.op = "requirements"
  => /\ query.list =
          Contribution(stack, ORCHESTRATOR, query.exclude)
            \o Contribution(stack, METADATA_STORE, query.exclude)
            \o Contribution(stack, ARTIFACT_STORE, query.exclude)
            \o Contribution(stack, CONTAINER_REGISTRY, query.exclude)
     /\ \A x \in Packages :
          Occurrences(query.list, x) =
            Cardinality({<<t, k>> \in (Present(stack) \ query.exclude)
                                       \X (1..MaxReqLen) :
                           /\ k <= Len(Slot(stack, t).requirements)
                           /\ Slot(stack, t).requirements[k] = x})

C9_Witness ==
  /\ query.op = "requirements"
  /\ query.exclude = {METADATA_STORE}
  /\ stack._metadata_store.requirements = <<"numpy">>
  /\ query.list = <<"mlflow", "mlflow">>

\* the categories, in the fixed order, whose component declares option key
Declaring(s, key) ==
  SelectSeq(FixedOrder(s),
            LAMBDA t : HasKey(Slot(s, t).runtime_options, key))

\* C10: runtime_options always returns a mapping: its keys are the keys
\* declared by some present component, each once; a key maps to the value
\* given by the last component, in the fixed order, that declares it; and a
\* warning is logged exactly for each component that redeclares a key.
C10_RuntimeOptionsMerge ==
  /\ query.op = "runtime_options"
       => /\ ~query.raised
          /\ keys(query.dict) =
               UNION {keys(Slot(stack, t).runtime_options) : t \in Present(stack)}
          /\ Len(query.dict) = Cardinality(keys(query.dict))
          /\ \A key \in keys(query.dict) :
               LET declaring == Declaring(stack, key)
               IN  Get(query.dict, key) =
                     Get(Slot(stack, declaring[Len(declaring)]).runtime_options,
                         key)
          /\ Len(query.warnings) =
               Cardinality({t \in Present(stack) :
                  \E key \in keys(Slot(stack, t).runtime_options) :
                    Declaring(stack, key)[1] # t})

C10_Witness ==
  /\ query.op = "runtime_options"
  /\ keys(stack._orchestrator.runtime_options) = {"image", "port"}
  /\ HasKey(stack._artifact_store.runtime_options, "image")
  /\ ~HasKey(stack._artifact_store.runtime_options, "port")
  /\ Get(query.dict, "image") = <<ARTIFACT_STORE, "image">>
  /\ Get(query.dict, "port") = <<ORCHESTRATOR, "port">>
  /\ query.warnings # <<>>

-----------------------------------------------------------------------------
(* Properties of RuntimeConfiguration, checked under SpecConfig *)

\* the value the caller expects under key k: the one last assigned to it,
\* else the one passed to the constructor
Expected(c, k) ==
  IF k \in DOMAIN c.latest THEN c.latest[k]
  ELSE IF k = RUN_NAME_OPTION_KEY THEN c.given_name
  ELSE Get(c.given_options, k)

\* C11: a RuntimeConfiguration made with run name n and options o returns n
\* as run_name (None when no run name was passed) and o[k] under each key k
\* of o; after assignments rc[k] = v, rc[k] is the value last assigned to k.
C11_StoresWhatIsGiven ==
  config.made
  => /\ HasKey(config.rc, RUN_NAME_OPTION_KEY)
     /\ run_name(config.rc) = Expected(config, RUN_NAME_OPTION_KEY)
     /\ \A k \in keys(config.given_options) \cup DOMAIN config.latest :
          /\ HasKey(config.rc, k)
          /\ Get(config.rc, k) = Expected(config, k)

C11_Witness ==
  /\ config.made
  /\ config.sets = 2
  /\ config.given_name = Str(<<"test_name">>)
  /\ HasKey(config.given_options, "some_option")
  /\ Get(config.given_options, "some_option") = NoneStr
  /\ "some_option" \in DOMAIN config.latest
  /\ Get(config.rc, "some_option") = Str(<<"43">>)
  /\ run_name(config.rc) = Str(<<"test_name">>)

\* C19: the reserved key is in the mapping from construction on, with value
\* None when no run name was passed; run_name is the value last assigned to
\* the reserved key; and an assignment rc[k] = v adds k to the keys and
\* changes the value of no other key, the reserved one included.
C19_ReservedKeyShared ==
  /\ [](config.made
         => /\ HasKey(config.rc, RUN_NAME_OPTION_KEY)
            /\ (config.sets = 0 /\ config.given_name = NoneStr)
                 => run_name(config.rc) = NoneStr
            /\ RUN_NAME_OPTION_KEY \in DOMAIN config.latest
                 => run_name(config.rc) = config.latest[RUN_NAME_OPTION_KEY])
  /\ [][(config.made /\ config'.sets = config.sets + 1)
          => /\ keys(config'.rc) = keys(config.rc) \cup {config'.last_key}
             /\ \A k \in keys(config.rc) \ {config'.last_key} :
                  /\ HasKey(config'.rc, k)
                  /\ Get(config'.rc, k) = Get(config.rc, k)]_vars

C19_Witness ==
  /\ config.made
  /\ config.sets = 2
  /\ config.last_key = "other_option"
  /\ DOMAIN config.latest = {RUN_NAME_OPTION_KEY, "other_option"}
  /\ config.given_name = NoneStr
  /\ run_name(config.rc) = Str(<<"test_name">>)
  /\ HasKey(config.given_options, "some_option")
  /\ Get(config.rc, "some_option") = Get(config.given_options, "some_option")

-----------------------------------------------------------------------------
(* Properties of the run name, checked under Spec *)

\* run_pipeline has been called in the invocation
Executed(r) ==
  \E k \in 1..Len(r.log) : r.log[k][1] = "run_pipeline"

\* C12: the run name passed to run_pipeline is the run name of the runtime
\* configuration when that is neither None nor empty; otherwise it is the
\* name of the pipeline, "-" and the formatted instant of the call.
C12_RunNameResolution ==
  \A i \in Invocations :
    Executed(inv[i])
    => LET r == inv[i]
           given == run_name(r.runtime_configuration)
       IN  IF ~given.isNone /\ given.s # <<>>
           THEN r.run_name = given
           ELSE /\ ~r.run_name.isNone
                /\ Len(r.run_name.s) > 2
                /\ r.run_name.s[1] = r.pipeline.name
                /\ r.run_name.s[2] = "-"
                /\ SubSeq(r.run_name.s, 3, Len(r.run_name.s))
                     = strftime(r.called_at)

C12_Witness ==
  \E i \in Invocations :
    /\ Executed(inv[i])
    /\ run_name(inv[i].runtime_configuration) = Str(<<>>)
    /\ inv[i].run_name = Str(<<"pipe", "-">> \o strftime(1))

\* the invocation passed a synthesized run name to run_pipeline
Synthesized(r) ==
  /\ ~r.run_name.isNone
  /\ ~Truthy(run_name(r.runtime_configuration))

\* C13 as stated: two calls for the same pipeline without an explicit run
\* name have passed different run names to run_pipeline.
C13_DistinctNames ==
  \A i \in Invocations : \A j \in Invocations \ {i} :
    (Synthesized(inv[i]) /\ Synthesized(inv[j])
       /\ inv[i].pipeline = inv[j].pipeline)
    => inv[i].run_name # inv[j].run_name

\* C13 as amended: two calls for the same pipeline without an explicit run
\* name have passed different run names exactly when they read different
\* instants of the clock; two calls that read the same microsecond have
\* passed the same name.
C13_DistinctInstants ==
  \A i \in Invocations : \A j \in Invocations \ {i} :
    (Synthesized(inv[i]) /\ Synthesized(inv[j])
       /\ inv[i].pipeline = inv[j].pipeline)
    => ((inv[i].run_name # inv[j].run_name)
          <=> (inv[i].called_at # inv[j].called_at))

C13_Witness ==
  /\ Synthesized(inv[1]) /\ Synthesized(inv[2])
  /\ inv[1].called_at = 0 /\ inv[2].called_at = 1
  /\ inv[1].run_name # inv[2].run_name

-----------------------------------------------------------------------------
(* Further properties of deploy_pipeline, checked under Spec *)

\* the position of the first call in the log that raised, 0 if none did
FirstRaise(log) ==
  IF \E k \in 1..Len(log) : RaisedAt(log, k)
  THEN CHOOSE k \in 1..Len(log) :
         RaisedAt(log, k) /\ \A j \in 1..(k - 1) : ~RaisedAt(log, j)
  ELSE 0

\* C14: when run_pipeline raised, the error of the invocation is the
\* execution error, whatever else the log holds; when a cleanup_pipeline_run
\* raised and nothing had raised before it, the invocation is FAILED with
\* the error of that hook and returns no result.
C14_CleanupFailure ==
  \A i \in Invocations :
    LET r == inv[i]
        first == FirstRaise(r.log)
    IN  first # 0
        => /\ r.log[first][1] = "run_pipeline" => r.error = ExecutionError
           /\ r.log[first][1] = "cleanup_pipeline_run"
                => /\ r.pc = "failed"
                   /\ r.error = [hook |-> "cleanup_pipeline_run",
                                  type |-> r.log[first][2]]
                   /\ r.result = "None"
                   /\ r.return_value \in ReturnValues

C14_Witness ==
  \E i \in Invocations :
    /\ inv[i].pc = "failed"
    /\ inv[i].error = [hook |-> "cleanup_pipeline_run", type |-> METADATA_STORE]
    /\ inv[i].return_value = "result_a"
    /\ inv[i].result = "None"

\* C16: every cleanup_pipeline_run in the log of an invocation is preceded,
\* in that log, by a prepare_pipeline_deployment and a prepare_pipeline_run
\* on the same component that both returned.
C16_CleanupOnlyOfPrepared ==
  \A i \in Invocations : \A k \in 1..Len(inv[i].log) :
    inv[i].log[k][1] = "cleanup_pipeline_run"
    => \A hook \in PrepareHooks :
         \E j \in 1..(k - 1) :
           inv[i].log[j] = <<hook, inv[i].log[k][2], "ok">>

C16_Witness ==
  \E i \in Invocations : \E k \in 1..Len(inv[i].log) :
    /\ inv[i].log[k][1] = "cleanup_pipeline_run"
    /\ inv[i].log[k][2] = CONTAINER_REGISTRY

-----------------------------------------------------------------------------
(* Further properties of validation, checked under SpecStack *)

\* the categories, in the fixed order, of the components of s that carry a
\* validator
Validated(s) ==
  SelectSeq(FixedOrder(s), LAMBDA t : Slot(s, t).validator # "none")

\* the initial part of Validated(s) that ends with the first validator that
\* fails, all of it if none fails
UpToFirstFailure(s) ==
  LET all == Validated(s)
      failing == {k \in 1..Len(all) : Slot(s, all[k]).validator = "rejects"}
  IN  IF failing = {} THEN all
      ELSE SubSeq(all, 1, CHOOSE k \in failing : \A j \in failing : k <= j)

\* C15: one pass of validate invokes the validators of the present
\* components that carry one, each once and in the fixed order, up to and
\* including the first that fails; it raises exactly when one failed.  This
\* holds of the pass made by the constructor and of a later validate().
C15_ValidationPass ==
  /\ ctor.status # "pending"
       => /\ ctor.validated = UpToFirstFailure(NewStack(args))
          /\ (ctor.status = "raised")
               <=> (\E c \in Given(args) : c.validator = "rejects")
  /\ query.op = "validate"
       => /\ query.list = UpToFirstFailure(stack)
          /\ ~query.raised

C15_Witness ==
  /\ ctor.status = "raised"
  /\ args.orchestrator.validator = "accepts"
  /\ args.metadata_store.validator = "none"
  /\ args.artifact_store.validator = "rejects"
  /\ args.container_registry.validator = "accepts"
  /\ ctor.validated = <<ORCHESTRATOR, ARTIFACT_STORE>>

-----------------------------------------------------------------------------
(* Termination of deploy_pipeline, checked under SpecLive *)

Hooks == PrepareHooks \cup {"cleanup_pipeline_run", "run_pipeline"}

\* C18: an invocation calls each hook at most once on each component and
\* run_pipeline at most once; while run_pipeline has not returned, no
\* cleanup_pipeline_run has been called, and the invocation leaves this
\* state only by the return or the exception of run_pipeline; and when all
\* calls return or raise, an invocation that was started ends DONE or FAILED.
C18_NoRetry ==
  /\ [](\A i \in Invocations :
          /\ \A hook \in Hooks : \A t \in StackComponentType :
               Count(inv[i].log, hook, t) <= 1
          /\ inv[i].pc = "run_pipeline"
               => /\ inv[i].log[Len(inv[i].log)]
                       = <<"run_pipeline", ORCHESTRATOR, "running">>
                  /\ \A k \in 1..Len(inv[i].log) :
                       inv[i].log[k][1] # "cleanup_pipeline_run")
  /\ [][\A i \in Invocations :
          (inv[i].pc = "run_pipeline" /\ inv'[i] # inv[i])
          => \E outcome \in ReturnValues \cup {"raise"} :
               inv'[i].log = Ended(inv[i].log, outcome)]_vars
  /\ \A i \in Invocations :
       (inv[i].pc \notin {"idle", "released"}) ~> Terminated(inv[i])

C18_Witness ==
  \E i \in Invocations :
    /\ inv[i].pc = "done"
    /\ CONTAINER_REGISTRY \in Present(stack)
    /\ Len(inv[i].log) = 13
    /\ inv[i].result = "result_a"

-----------------------------------------------------------------------------
(* The stack under use, under SpecUse *)

\* C20: once constructed, the Stack keeps the name and the four slots the
\* constructor assigned: no call of components, validate, requirements,
\* runtime_options or deploy_pipeline, and no hook returning or raising,
\* changes them. The components whose validators the constructor invoked
\* are the present ones, and the calls every invocation has made are an
\* initial part of the phases over exactly those components.
C20_SlotsUnchanged ==
  /\ [](stack.exists
         => /\ stack = NewStack(args)
            /\ \A t \in Present(stack) :
                 Slot(stack, t).validator # "none"
                 => \E k \in 1..Len(ctor.validated) : ctor.validated[k] = t
            /\ \A i \in Invocations :
                 IsPrefix(Calls(inv[i].log), ExpectedCalls(NewStack(args))))
  /\ [][stack.exists => stack' = stack]_vars

C20_Witness ==
  /\ stack = NewStack(args)
  /\ CONTAINER_REGISTRY \in Present(stack)
  /\ ctor.validated = FixedOrder(stack)
  /\ query.op = "validate"
  /\ \E i, j \in Invocations :
       /\ inv[i].pc = "released"
       /\ inv[j].pc = "failed"
       /\ inv[j].error.hook = "cleanup_pipeline_run"
       /\ Calls(inv[j].log) = ExpectedCalls(stack)

-----------------------------------------------------------------------------
(* Overlapping invocations, under SpecOverlap *)

\* the component on which the hook call of an invocation is in flight
Current(r) == FixedOrder(stack)[r.idx]

\* the invocation has prepared the run on component t and its run_pipeline
\* call has not returned
BetweenPrepareAndReturn(r, t) ==
  /\ r.pc \in {"prepare_pipeline_run", "run_pipeline"}
  /\ \E k \in 1..Len(r.log) : r.log[k] = <<"prepare_pipeline_run", t, "ok">>

\* C17: deploy_pipeline takes no lock on the Stack: whatever the other
\* invocations are doing, a caller can enter deploy_pipeline on a
\* constructed stack, and an invocation that is at its cleanup phase can
\* have cleanup_pipeline_run called on its current component, also while
\* another invocation is between its prepare_pipeline_run on that component
\* and the return of its run_pipeline.
C17_NoLock ==
  \A i \in Callers :
    /\ (stack.exists /\ inv[i].pc = "idle") => ENABLED DeployOverlapping(i)
    /\ inv[i].pc = "cleanup_pipeline_run" => ENABLED CleanupPipelineRun(i)

C17_Witness ==
  \E i, j \in Callers :
    /\ i # j
    /\ inv[i].pc = "cleanup_pipeline_run"
    /\ Len(inv[i].log) > 0
    /\ inv[i].log[Len(inv[i].log)][1] = "cleanup_pipeline_run"
    /\ BetweenPrepareAndReturn(inv[j], Current(inv[i]))
    /\ BetweenPrepareAndReturn(inv[j],
                               inv[i].log[Len(inv[i].log)][2])

====
